---- MODULE Spec2Model ----
(***************************************************************************)
(* Model of the `nightly` procedural macro (src/src/lib.rs).               *)
(*                                                                         *)
(* The macro walks a proc_macro TokenStream once.  A joint `+`/`-` and a   *)
(* following alone `+`/`-` of the same character are held back in the      *)
(* two-slot array `prev`; a Group arriving while both slots are filled is  *)
(* either spliced (its stream appended) or dropped, depending on           *)
(* cfg!(feature = "nightly").  Everything else is emitted, Groups being    *)
(* rebuilt around their processed stream.                                  *)
(*                                                                         *)
(* The model runs the loop of <TokenStream as Process>::process one token  *)
(* per step.  The call stack (process -> Group::process -> process) is the *)
(* variable `stack`; its last element is the running call.                 *)
(***************************************************************************)
EXTENDS Integers, Sequences, FiniteSets, TLC

\* ------------------------------------------------------------------------
\* Bounds of the model
\* ------------------------------------------------------------------------

\* Largest number of tokens (atoms and Groups, at all depths) of a generated input.
MaxTokens == 4

\* Largest number of tokens of the block A of the generated `cc[ cc[A] ]` and `X ++[A] Y` inputs.
MaxBlock == 2

\* Largest number of tokens of A and B together in the generated `++[A] --[B]` inputs.
MaxPair == 3

\* Largest number of atoms of X and Y together in the generated `X ++[A] Y` inputs.
MaxCtx == 2

\* Largest number k of joint `+` (or `-`) that start the generated runs `c ... c c[A]`.
MaxRun == 3

\* ------------------------------------------------------------------------
\* proc_macro token trees
\* ------------------------------------------------------------------------

\* Option::None in a slot of `prev`.  The code's prev[0], prev[1] are prev[1], prev[2] here.
None == [kind |-> "None", ch |-> "", spacing |-> "", delimiter |-> "", span |-> "", stream |-> <<>>]

\* TokenTree::Punct with its character and Spacing.
Punct(c, sp) == [kind |-> "Punct", ch |-> c, spacing |-> sp, delimiter |-> "", span |-> "", stream |-> <<>>]

\* TokenTree::Ident (any token tree that is neither Punct nor Group).
Ident(n) == [kind |-> "Ident", ch |-> n, spacing |-> "", delimiter |-> "", span |-> "", stream |-> <<>>]

\* TokenTree::Group: a delimiter, a span and the owned stream.
Group(d, sp, s) == [kind |-> "Group", ch |-> "", spacing |-> "", delimiter |-> d, span |-> sp, stream |-> s]

\* The span Group::new gives a fresh group (Span::call_site()).
CallSite == "call_site"

\* The span of the groups of the macro's input.
SrcSpan == "src"

\* proc_macro::Delimiter
Delimiter == {"Parenthesis", "Brace", "Bracket", "None"}

\* ------------------------------------------------------------------------
\* <TokenStream as Process>::process, one loop iteration
\* ------------------------------------------------------------------------

\* The guard "+-".contains(p.as_char()) of the first arm.
IsPlusMinus(c) == c \in {"+", "-"}

\* The first arm without its test of the character.
SaveFirstArmAnyPunct(prev, token) ==
    /\ prev[1] = None
    /\ prev[2] = None
    /\ token.kind = "Punct"
    /\ token.spacing = "Joint"

\* First arm: nothing held, the token is a joint `+` or `-`.
SaveFirstArm(prev, token) ==
    /\ prev[1] = None
    /\ prev[2] = None
    /\ token.kind = "Punct"
    /\ IsPlusMinus(token.ch)
    /\ token.spacing = "Joint"

\* The second arm without its comparison of the two characters.
SaveSecondArmAnyChar(prev, token) ==
    /\ prev[1] = None
    /\ prev[2] # None
    /\ prev[2].kind = "Punct"
    /\ token.kind = "Punct"
    /\ token.spacing = "Alone"

\* Second arm: one punct held in the second slot (prev[1] in the code, prev[2] here, where
\* sequences count from 1), the token is an alone punct of the same character.
SaveSecondArm(prev, token) ==
    /\ prev[1] = None
    /\ prev[2] # None
    /\ prev[2].kind = "Punct"
    /\ token.kind = "Punct"
    /\ prev[2].ch = token.ch
    /\ token.spacing = "Alone"

\* The third arm taking bracketed groups only.
ConditionalArmBracketOnly(prev, token) ==
    /\ prev[1] # None
    /\ prev[1].kind = "Punct"
    /\ prev[2] # None
    /\ prev[2].kind = "Punct"
    /\ token.kind = "Group"
    /\ token.delimiter = "Bracket"

\* Third arm: two puncts held, the token is a Group.
ConditionalArm(prev, token) ==
    /\ prev[1] # None
    /\ prev[1].kind = "Punct"
    /\ prev[2] # None
    /\ prev[2].kind = "Punct"
    /\ token.kind = "Group"

\* The match with a last arm that takes only the case of nothing held.
MatchArmNothingHeld(prev, token) ==
    IF SaveFirstArm(prev, token) THEN "first"
    ELSE IF SaveSecondArm(prev, token) THEN "second"
    ELSE IF ConditionalArm(prev, token) THEN "conditional"
    ELSE IF prev = <<None, None>> THEN "emit"
    ELSE "panic"

\* The arm the match takes: arms are tried in order.
MatchArm(prev, token) ==
    IF SaveFirstArm(prev, token) THEN "first"
    ELSE IF SaveSecondArm(prev, token) THEN "second"
    ELSE IF ConditionalArm(prev, token) THEN "conditional"
    ELSE "emit"

\* The test with the two characters exchanged.
SelectedSwapped(p, nightly) == (p.ch = "-") = nightly

\* (p.as_char() == '+') == cfg!(feature = "nightly")
Selected(p, nightly) == (p.ch = "+") = nightly

RECURSIVE Loop(_, _, _, _)

\* The third arm appending the group itself instead of its stream.
SplicedGroup(p, grp, nightly) == IF Selected(p, nightly) THEN <<grp>> ELSE <<>>

\* The third arm appending the processed stream of the group.
SplicedResolved(p, grp, nightly) ==
    IF Selected(p, nightly) THEN Loop(grp.stream, <<None, None>>, <<>>, nightly) ELSE <<>>

\* What the third arm appends: the group's own stream, as it is, or nothing.
Spliced(p, grp, nightly) == IF Selected(p, nightly) THEN grp.stream ELSE <<>>

\* The fourth arm emitting what is held in the order [q, p].
HeldReversed(prev) == SelectSeq(<<prev[2], prev[1]>>, LAMBDA t : t # None)

\* The held tokens the fourth arm emits ahead of the current one: [p, q] without the Nones.
Held(prev) == SelectSeq(prev, LAMBDA t : t # None)

\* Group::process building a bracketed group whatever the delimiter was.
RebuiltBracket(grp, processed) == Group("Bracket", grp.span, processed)

\* Group::process: a new group of the same delimiter around the processed stream, span copied.
Rebuilt(grp, processed) == Group(grp.delimiter, grp.span, processed)

\* `prev` after an iteration that looks at the token again once it has flushed: a joint
\* `+`/`-` that ends a failed attempt starts the next one.
NextPrevRescan(prev, token) ==
    CASE MatchArm(prev, token) = "first" -> <<None, token>>
      [] MatchArm(prev, token) = "second" -> <<prev[2], token>>
      [] MatchArm(prev, token) = "emit" /\ SaveFirstArm(<<None, None>>, token) -> <<None, token>>
      [] OTHER -> <<None, None>>

\* The value of `prev` after an iteration.
NextPrev(prev, token) ==
    CASE MatchArm(prev, token) = "first" -> <<None, token>>
      [] MatchArm(prev, token) = "second" -> <<prev[2], token>>
      [] OTHER -> <<None, None>>

\* What process returns once the loop has ended: the stream; `prev` is dropped.
Returned(stream, prev) == stream

\* ------------------------------------------------------------------------
\* The whole function, as recursive operators
\* ------------------------------------------------------------------------

\* The for loop of process over the remaining tokens `self`.
Loop(self, prev, stream, nightly) ==
    IF self = <<>> THEN Returned(stream, prev)
    ELSE LET token == Head(self)
             arm == MatchArm(prev, token)
             out == CASE arm = "first" -> stream
                      [] arm = "second" -> stream
                      [] arm = "conditional" -> stream \o Spliced(prev[1], token, nightly)
                      [] OTHER -> stream \o Held(prev) \o
                            (IF token.kind = "Group"
                               THEN <<Rebuilt(token, Loop(token.stream, <<None, None>>, <<>>, nightly))>>
                               ELSE <<token>>)
         IN Loop(Tail(self), NextPrev(prev, token), out, nightly)

\* <TokenStream as Process>::process
Process(self, nightly) == Loop(self, <<None, None>>, <<>>, nightly)

\* ------------------------------------------------------------------------
\* Inputs
\* ------------------------------------------------------------------------

\* The atoms of generated inputs: `+` and `-` with both spacings, another joint punct, an ident.
Atoms == <<Punct("+", "Joint"), Punct("+", "Alone"), Punct("-", "Joint"), Punct("-", "Alone"),
           Punct("*", "Joint"), Ident("x")>>

\* A generated stream is written token by token, depth first, in numbers: a..Len(Atoms) is
\* the atom Atoms[a]; Len(Atoms) + 1 + k opens a group that has k tokens inside.
Symbols(n) == 1..(Len(Atoms) + n)

\* The number of tokens inside the group that the symbol x opens.
Inside(x) == x - Len(Atoms) - 1

RECURSIVE WellNested(_, _, _)
\* In the written form w, the tokens i..j are whole token trees: every group closes by j.
WellNested(w, i, j) ==
    IF i > j THEN TRUE
    ELSE IF w[i] <= Len(Atoms) THEN WellNested(w, i + 1, j)
    ELSE /\ i + Inside(w[i]) <= j
         /\ WellNested(w, i + 1, i + Inside(w[i]))
         /\ WellNested(w, i + Inside(w[i]) + 1, j)

RECURSIVE Parsed(_, _, _)
\* The token stream the tokens i..j of the written form w stand for; groups are bracketed.
Parsed(w, i, j) ==
    IF i > j THEN <<>>
    ELSE IF w[i] <= Len(Atoms) THEN <<Atoms[w[i]]>> \o Parsed(w, i + 1, j)
    ELSE <<Group("Bracket", SrcSpan, Parsed(w, i + 1, i + Inside(w[i])))>>
            \o Parsed(w, i + Inside(w[i]) + 1, j)

\* All token streams of exactly n tokens, counting the tokens inside groups.
Forests(n) == {Parsed(w, 1, n) : w \in {v \in [1..n -> Symbols(n)] : WellNested(v, 1, n)}}

RECURSIVE Redelimited(_, _)
\* The stream s with every group, at every depth, given the delimiter d.
Redelimited(s, d) ==
    [i \in 1..Len(s) |->
        IF s[i].kind = "Group" THEN Group(d, s[i].span, Redelimited(s[i].stream, d)) ELSE s[i]]

\* `cc[A]`: a joint c, an alone c and a group around A.
Block(c, d, A) == <<Punct(c, "Joint"), Punct(c, "Alone"), Group(d, SrcSpan, A)>>

\* The atoms of the contexts of `X ++[A] Y`: no `+` or `-` punctuation.
CtxAtoms == {Punct("*", "Joint"), Ident("x")}

\* `foo ++`: an ident and a doubled `+` with nothing after it.
FooPlusPlus == <<Ident("foo"), Punct("+", "Joint"), Punct("+", "Alone")>>

\* `pub ++[const] fn f() {}` of the crate documentation.
PubConstFn ==
    <<Ident("pub")>> \o Block("+", "Bracket", <<Ident("const")>>) \o
    <<Ident("fn"), Ident("f"), Group("Parenthesis", SrcSpan, <<>>), Group("Brace", SrcSpan, <<>>)>>

\* Every token stream of at most MaxTokens tokens.
GeneralInput(in) == \E n \in 0..MaxTokens : in \in Forests(n)

\* The smaller streams with another delimiter on their groups.
DelimiterInput(in) ==
    \E n \in 1..(MaxTokens - 1) : \E s \in Forests(n) : \E d \in Delimiter \ {"Bracket"} :
        in = Redelimited(s, d)

\* `cc[X]`.
NestedInput(in) ==
    \E n \in 0..(MaxTokens - 1) : \E X \in Forests(n) : \E c \in {"+", "-"} :
        in = Block(c, "Bracket", X)

\* `cc[ c'c'[A] ]`.
DoublyNestedInput(in) ==
    \E n \in 0..MaxBlock : \E A \in Forests(n) :
        \E c \in {"+", "-"}, c2 \in {"+", "-"}, d \in {"Bracket", "Brace"} :
            in = Block(c, "Bracket", Block(c2, d, A))

\* `++[A] --[B]` with A and B not empty, of at most MaxPair tokens together.
PairInput(in) ==
    \E n \in 1..(MaxPair - 1) : \E k \in 1..(MaxPair - n) :
        \E A \in Forests(n) : \E B \in Forests(k) :
            in = Block("+", "Bracket", A) \o Block("-", "Bracket", B)

\* `X ++[A] Y` with no `+` or `-` in X and Y, which have at most MaxCtx atoms together.
ContextInput(in) ==
    \E n \in 0..MaxBlock : \E A \in Forests(n) :
        \E i \in 0..MaxCtx : \E k \in 0..(MaxCtx - i) :
            \E X \in [1..i -> CtxAtoms] : \E Y \in [1..k -> CtxAtoms] :
                in = X \o Block("+", "Bracket", A) \o Y

\* `cc[ (c'c'[A]) ]`: a block around an ordinary group that holds a block.
GroupInBlockInput(in) ==
    \E n \in 0..MaxBlock : \E A \in Forests(n) :
        \E c \in {"+", "-"}, c2 \in {"+", "-"}, d \in Delimiter :
            in = Block(c, "Bracket", <<Group(d, SrcSpan, Block(c2, "Bracket", A))>>)

\* `c ... c c[A]`: k joint c, an alone c and a group, for k up to MaxRun.
RunInput(in) ==
    \E n \in 0..MaxBlock : \E A \in Forests(n) :
        \E k \in 1..MaxRun : \E c \in {"+", "-"}, d \in {"Bracket", "Parenthesis"} :
            in = [i \in 1..k |-> Punct(c, "Joint")] \o <<Punct(c, "Alone"), Group(d, SrcSpan, A)>>

\* `cc[A]`, `cc(A)`, `cc{A}` and cc before a group A without visible delimiters.
DelimitedBlockInput(in) ==
    \E n \in 0..MaxBlock : \E A \in Forests(n) : \E c \in {"+", "-"}, d \in Delimiter :
        in = Block(c, d, A)

\* ------------------------------------------------------------------------
\* The macro as a state machine
\* ------------------------------------------------------------------------

VARIABLES
    input,            \* the TokenStream handed to nightly()
    nightly_enabled,  \* cfg!(feature = "nightly")
    stack,            \* the calls of process in progress, the running one last
    result,           \* the TokenStream nightly() returned
    pc                \* "run" while nightly() runs, "done" once it has returned

vars == <<input, nightly_enabled, stack, result, pc>>

\* A call of TokenStream::process at its entry; grp is the Group whose process made the call.
Call(self, grp) == [self |-> self, prev |-> <<None, None>>, stream |-> <<>>, grp |-> grp]

\* The running call.
Top == stack[Len(stack)]

\* The stack with the running call replaced by f.
WithTop(f) == [stack EXCEPT ![Len(stack)] = f]

\* nightly(input) has been called and process is at the head of its loop.
Init ==
    /\ \/ GeneralInput(input)
       \/ DelimiterInput(input)
       \/ NestedInput(input)
       \/ DoublyNestedInput(input)
       \/ PairInput(input)
       \/ ContextInput(input)
       \/ GroupInBlockInput(input)
       \/ RunInput(input)
       \/ DelimitedBlockInput(input)
       \/ input = PubConstFn
       \/ input = FooPlusPlus
    /\ nightly_enabled \in BOOLEAN
    /\ stack = <<Call(input, None)>>
    /\ result = <<>>
    /\ pc = "run"

\* The running call has a token left, and the match takes arm `arm` on it.
AtArm(arm) ==
    /\ pc = "run"
    /\ Top.self # <<>>
    /\ MatchArm(Top.prev, Head(Top.self)) = arm

\* The running call after one iteration that appended `emitted`.
Advanced(emitted) ==
    [Top EXCEPT !.self = Tail(Top.self),
                !.prev = NextPrev(Top.prev, Head(Top.self)),
                !.stream = Top.stream \o emitted]

\* First arm: hold the joint `+`/`-`.
SaveFirst ==
    /\ AtArm("first")
    /\ stack' = WithTop(Advanced(<<>>))
    /\ UNCHANGED <<input, nightly_enabled, result, pc>>

\* Second arm: hold the alone second `+`/`-`.
SaveSecond ==
    /\ AtArm("second")
    /\ stack' = WithTop(Advanced(<<>>))
    /\ UNCHANGED <<input, nightly_enabled, result, pc>>

\* Third arm: splice the group's stream or drop the block.
Conditionalize ==
    /\ AtArm("conditional")
    /\ stack' = WithTop(Advanced(Spliced(Top.prev[1], Head(Top.self), nightly_enabled)))
    /\ UNCHANGED <<input, nightly_enabled, result, pc>>

\* Fourth arm, the token is no Group: emit the held tokens and the token.
EmitToken ==
    /\ AtArm("emit")
    /\ Head(Top.self).kind # "Group"
    /\ stack' = WithTop(Advanced(Held(Top.prev) \o <<Head(Top.self)>>))
    /\ UNCHANGED <<input, nightly_enabled, result, pc>>

\* Fourth arm, the token is a Group: emit the held tokens and call grp.process().
EmitGroup ==
    /\ AtArm("emit")
    /\ Head(Top.self).kind = "Group"
    /\ stack' = Append(WithTop(Advanced(Held(Top.prev))),
                       Call(Head(Top.self).stream, Head(Top.self)))
    /\ UNCHANGED <<input, nightly_enabled, result, pc>>

\* The loop of a call made by Group::process has ended: the rebuilt group is appended
\* to the caller's stream.
ReturnGroup ==
    /\ pc = "run"
    /\ Top.self = <<>>
    /\ Len(stack) > 1
    /\ LET caller == stack[Len(stack) - 1]
           grp == Rebuilt(Top.grp, Returned(Top.stream, Top.prev))
       IN stack' = [SubSeq(stack, 1, Len(stack) - 1) EXCEPT
                        ![Len(stack) - 1] = [caller EXCEPT !.stream = caller.stream \o <<grp>>]]
    /\ UNCHANGED <<input, nightly_enabled, result, pc>>

\* The loop of the outermost call has ended: nightly() returns the stream.
ReturnTop ==
    /\ pc = "run"
    /\ Top.self = <<>>
    /\ Len(stack) = 1
    /\ result' = Returned(Top.stream, Top.prev)
    /\ pc' = "done"
    /\ UNCHANGED <<input, nightly_enabled, stack>>

Next ==
    \/ SaveFirst
    \/ SaveSecond
    \/ Conditionalize
    \/ EmitToken
    \/ EmitGroup
    \/ ReturnGroup
    \/ ReturnTop

Spec == Init /\ [][Next]_vars

\* The state machine computes what the recursive operators compute.
MachineAgrees == pc = "done" => result = Process(input, nightly_enabled)

\* ------------------------------------------------------------------------
\* Vocabulary of the properties
\* ------------------------------------------------------------------------

\* nightly() has returned.
Done == pc = "done"

\* A joint `+` or `-`.
JointSign(t) == t.kind = "Punct" /\ t.ch \in {"+", "-"} /\ t.spacing = "Joint"

\* An alone punct of the character of t.
AloneTwin(t, u) == u.kind = "Punct" /\ u.ch = t.ch /\ u.spacing = "Alone"

\* A Marker starts at s[i]: a joint `+`/`-`, an alone one of the same character, a Group.
MarkerAt(s, i) ==
    /\ i + 2 <= Len(s)
    /\ JointSign(s[i])
    /\ AloneTwin(s[i], s[i + 1])
    /\ s[i + 2].kind = "Group"

RECURSIVE HasMarker(_)
\* The stream holds a Marker at some nesting depth.
HasMarker(s) ==
    \E i \in 1..Len(s) : MarkerAt(s, i) \/ (s[i].kind = "Group" /\ HasMarker(s[i].stream))

\* The stream is one Conditional Block `cc[X]` and nothing else.
IsBlock(s) == Len(s) = 3 /\ MarkerAt(s, 1)

\* The stream is `++[A] --[B]` with A and B not empty.
IsPair(s) ==
    /\ Len(s) = 6
    /\ MarkerAt(s, 1) /\ s[1].ch = "+" /\ s[3].stream # <<>>
    /\ MarkerAt(s, 4) /\ s[4].ch = "-" /\ s[6].stream # <<>>

\* An atom that is no `+` or `-` punctuation.
PlainAtom(t) == t.kind = "Ident" \/ (t.kind = "Punct" /\ t.ch \notin {"+", "-"})

\* The stream is `X ++[A] Y` with the group at s[g] and only plain atoms in X and Y.
IsContext(s, g) ==
    /\ g \in 3..Len(s)
    /\ MarkerAt(s, g - 2) /\ s[g - 2].ch = "+"
    /\ \A i \in 1..Len(s) \ {g - 2, g - 1, g} : PlainAtom(s[i])

\* The first n tokens of s.
Prefix(s, n) == SubSeq(s, 1, n)

\* The tokens of s after the first n.
Suffix(s, n) == SubSeq(s, n + 1, Len(s))

RECURSIVE Groups(_)
\* The Groups of a stream, at every nesting depth.
Groups(s) ==
    UNION {IF s[i].kind = "Group" THEN {s[i]} \cup Groups(s[i].stream) ELSE {} : i \in 1..Len(s)}

RECURSIVE Weight(_)
\* The number of tokens of a stream, the tokens inside groups included.
Weight(s) == IF s = <<>> THEN 0 ELSE 1 + Weight(Head(s).stream) + Weight(Tail(s))

RECURSIVE Pending(_, _)
\* The tokens the calls stack[1..n] have still to read.
Pending(st, n) == IF n = 0 THEN 0 ELSE Weight(st[n].self) + Pending(st, n - 1)

\* A bound on the steps nightly() has still to take.
Measure == 2 * Pending(stack, Len(stack)) + Len(stack) + (IF pc = "run" THEN 1 ELSE 0)

\* ------------------------------------------------------------------------
\* Properties
\* ------------------------------------------------------------------------

\* C1. Mode selection: on `++[A] --[B]` with A and B not empty, the macro returns exactly A
\* when the nightly feature is on and exactly B when it is off.
ModeSelection ==
    (Done /\ IsPair(input)) =>
        result = (IF nightly_enabled THEN input[3].stream ELSE input[6].stream)

\* A run on `++[A] --[B]` where A has two tokens has returned, feature on.
ModeSelectionReached ==
    Done /\ IsPair(input) /\ nightly_enabled /\ Len(input[3].stream) = 2 /\ result = input[3].stream

\* C2. End-of-stream flush, as claimed: the atoms still held when the stream ends are emitted
\* at the end of the output, so `foo ++` comes back as `foo ++`.
EndOfStreamFlush ==
    Done => /\ result = Top.stream \o Held(Top.prev)
            /\ (input = FooPlusPlus => result = FooPlusPlus)

\* C3. Nested resolution, as claimed, for a selected block whose content X is itself a
\* Conditional Block: rewrite(`cc[X]`, mode) = rewrite(X, mode).
NestedResolution ==
    (Done /\ IsBlock(input) /\ (input[1].ch = "+") = nightly_enabled /\ IsBlock(input[3].stream)) =>
        result = Process(input[3].stream, nightly_enabled)

\* C4. No marker survives, as claimed: the output holds no Marker at any nesting depth.
NoMarkerSurvives == Done => ~HasMarker(result)

\* C5. Pass-through identity, as claimed: an input without a Marker comes back unchanged.
PassThroughIdentity == (Done /\ ~HasMarker(input)) => result = input

\* C6. Splice/delete in context: on `X ++[A] Y` with only plain atoms in X and Y the macro
\* returns X A Y when the feature is on and X Y when it is off; `pub ++[const] fn f() {}`
\* becomes `pub const fn f() {}` or `pub fn f() {}`.
SpliceInContext ==
    Done =>
        /\ \A g \in 1..Len(input) :
              IsContext(input, g) =>
                 result = Prefix(input, g - 3)
                            \o (IF nightly_enabled THEN input[g].stream ELSE <<>>)
                            \o Suffix(input, g)
        /\ input = PubConstFn =>
              result = <<Ident("pub")>> \o (IF nightly_enabled THEN <<Ident("const")>> ELSE <<>>)
                         \o Suffix(PubConstFn, 4)

\* A run on `X ++[A] Y` with X, A and Y not empty has returned, feature on.
SpliceInContextReached ==
    /\ Done
    /\ nightly_enabled
    /\ \E g \in 4..(Len(input) - 1) : IsContext(input, g) /\ input[g].stream # <<>>
    /\ Len(result) > 2

\* inp[i] is a held `+`/`-` when the tokens before it are plain atoms; the next token is an
\* atom that does not complete the pair, and a Group follows.
BrokenPairAt(inp, i) ==
    /\ i + 2 <= Len(inp)
    /\ \A k \in 1..(i - 1) : PlainAtom(inp[k])
    /\ JointSign(inp[i])
    /\ inp[i + 1].kind # "Group"
    /\ ~AloneTwin(inp[i], inp[i + 1])
    /\ inp[i + 2].kind = "Group"

\* inp[i] is a `+`/`-` that is not joint, after plain atoms, and a Group follows it.
AlonePunctAt(inp, i) ==
    /\ i + 1 <= Len(inp)
    /\ \A k \in 1..(i - 1) : PlainAtom(inp[k])
    /\ inp[i].kind = "Punct" /\ inp[i].ch \in {"+", "-"} /\ inp[i].spacing = "Alone"
    /\ inp[i + 1].kind = "Group"

\* inp[i], inp[i + 1] are a held doubled pair, after plain atoms, and no Group follows.
PairNoGroupAt(inp, i) ==
    /\ i + 2 <= Len(inp)
    /\ \A k \in 1..(i - 1) : PlainAtom(inp[k])
    /\ JointSign(inp[i])
    /\ AloneTwin(inp[i], inp[i + 1])
    /\ inp[i + 2].kind # "Group"

\* out[g] is the Group inp[g] rebuilt: same delimiter and span, around its processed stream.
StaysGroup(inp, out, g) ==
    /\ Len(out) >= g
    /\ out[g] = Group(inp[g].delimiter, inp[g].span, Process(inp[g].stream, nightly_enabled))

\* C7. Mid-stream lookalikes pass through: a held `+`/`-` followed by a token that does not
\* complete the pair, a `+`/`-` that is not joint followed by a Group, and a held pair followed
\* by a token that is no Group all come out in their order with their spacing, ahead of the
\* following token, and the following Group stays a Group of its delimiter, in both modes.
LookalikesPassThrough ==
    Done =>
        \A i \in 1..Len(input) :
            /\ BrokenPairAt(input, i) =>
                  /\ Len(result) >= i + 2
                  /\ Prefix(result, i + 1) = Prefix(input, i + 1)
                  /\ StaysGroup(input, result, i + 2)
            /\ AlonePunctAt(input, i) =>
                  /\ Len(result) >= i + 1
                  /\ Prefix(result, i) = Prefix(input, i)
                  /\ StaysGroup(input, result, i + 1)
            /\ PairNoGroupAt(input, i) =>
                  /\ Len(result) >= i + 2
                  /\ Prefix(result, i + 2) = Prefix(input, i + 2)

\* A run on `x +-[A]` (a plain atom, a joint `+`, an alone `-`, a Group) has returned.
LookalikesReached ==
    /\ Done
    /\ BrokenPairAt(input, 2)
    /\ input[2].ch = "+" /\ input[3] = Punct("-", "Alone")
    /\ Len(result) = 4

GroupsWholeOrRebuilt ==
    Done =>
        \A g \in Groups(result) :
            \/ g \in Groups(input)
            \/ \E h \in Groups(input) :
                  g = Group(h.delimiter, h.span, Process(h.stream, nightly_enabled))

\* A run whose output holds a rebuilt Group that is not one of the input's, with a Group
\* nested in it, has returned.
GroupsReached ==
    /\ Done
    /\ \E g \in Groups(result) : g \notin Groups(input) /\ Groups(g.stream) # {}

\* C10. Totality: while nightly() has not returned a step can be taken, every step lowers
\* Measure, which is never negative, and the empty stream gives the empty stream.
Totality ==
    /\ [](Done \/ ENABLED Next)
    /\ [](Measure >= 0)
    /\ [][Measure' < Measure]_vars
    /\ []((Done /\ input = <<>>) => result = <<>>)

\* A run on an input that ends in a pair with no Group after it, and that holds a Group
\* whose stream starts with a joint `+`, has returned.
TotalityReached ==
    /\ Done
    /\ Len(input) >= 3
    /\ JointSign(input[Len(input) - 1]) /\ AloneTwin(input[Len(input) - 1], input[Len(input)])
    /\ \E g \in Groups(input) : g.stream # <<>> /\ Head(g.stream) = Punct("+", "Joint")

\* The stream is `cc[ G ]` where G is one Group that holds one Conditional Block.
IsGroupInBlock(s) ==
    /\ IsBlock(s)
    /\ Len(s[3].stream) = 1
    /\ s[3].stream[1].kind = "Group"
    /\ IsBlock(s[3].stream[1].stream)

\* C11. Group recursion, as claimed, for the Group G of `cc[ G ]` with cc selected and a
\* Conditional Block inside G: G is no block's own Group, so it comes out as one Group of its
\* delimiter and span around the rewrite of its children, the inner block resolved.
GroupRecursion ==
    (Done /\ IsGroupInBlock(input) /\ (input[1].ch = "+") = nightly_enabled) =>
        LET G == input[3].stream[1]
        IN result = <<Group(G.delimiter, G.span, Process(G.stream, nightly_enabled))>>

\* The part of C11 the code keeps: a Group that the loop meets outside the third arm is
\* returned to the caller as one Group of its delimiter and span around the rewrite of its
\* children, at every depth of calls.
GroupRecursionInScan ==
    [][Len(stack') = Len(stack) - 1 =>
          stack'[Len(stack')].stream =
              stack[Len(stack')].stream
                \o <<Group(Top.grp.delimiter, Top.grp.span,
                           Process(Top.grp.stream, nightly_enabled))>>]_vars

\* Nothing is held.
HoldsNone(prev) == prev = <<None, None>>

\* One joint `+` or `-` is held, in the second slot.
HoldsOne(prev) == prev[1] = None /\ JointSign(prev[2])

\* A joint `+` or `-` and an alone one of the same character are held, in this order.
HoldsTwo(prev) == JointSign(prev[1]) /\ AloneTwin(prev[1], prev[2])

\* C12. Pending-buffer invariant: between two tokens, in every call of process, `prev` has two
\* slots and holds nothing, or one joint `+`/`-` in its second slot, or a joint `+`/`-` and an
\* alone one of the same character; never a Group, another atom, or a first slot alone.
PendingBuffer ==
    \A k \in 1..Len(stack) :
        /\ Len(stack[k].prev) = 2
        /\ HoldsNone(stack[k].prev) \/ HoldsOne(stack[k].prev) \/ HoldsTwo(stack[k].prev)

\* Inside a Group a doubled `-` is held while another token is still to be read.
PendingBufferReached ==
    /\ pc = "run"
    /\ Len(stack) > 1
    /\ HoldsTwo(Top.prev) /\ Top.prev[1].ch = "-"
    /\ Top.self # <<>>

\* The stream is k joint `+` (or k joint `-`), an alone one of the same character, a Group.
IsRun(s, k) ==
    /\ k >= 1
    /\ Len(s) = k + 2
    /\ \A i \in 1..k : JointSign(s[i]) /\ s[i].ch = s[1].ch
    /\ AloneTwin(s[1], s[k + 1])
    /\ s[k + 2].kind = "Group"

\* What is held, in order.
HeldTokens(prev) == IF HoldsTwo(prev) THEN prev ELSE IF HoldsOne(prev) THEN <<prev[2]>> ELSE <<>>

\* The running call holds something and its next token neither completes the pair nor is
\* the Group of a held pair: the token triggers a flush.
FlushDue ==
    /\ pc = "run"
    /\ Top.self # <<>>
    /\ \/ HoldsOne(Top.prev) /\ ~AloneTwin(Top.prev[2], Head(Top.self))
       \/ HoldsTwo(Top.prev) /\ Head(Top.self).kind # "Group"

\* The run of k signs: a Conditional Block after k - 1 signs when k is odd, ordinary tokens
\* when k is even.
RunResolved ==
    \A k \in 1..(Len(input) - 2) :
        (Done /\ IsRun(input, k)) =>
            LET G == input[k + 2]
            IN result =
                 IF k % 2 = 1
                   THEN Prefix(input, k - 1)
                          \o (IF (input[1].ch = "+") = nightly_enabled THEN G.stream ELSE <<>>)
                   ELSE Prefix(input, k + 1)
                          \o <<Group(G.delimiter, G.span, Process(G.stream, nightly_enabled))>>

\* C13. Non-overlapping recognition: the token that triggers a flush is emitted in that step,
\* after the held tokens, and nothing is held after the step, even when the token is a joint
\* `+`/`-` (a Group is handed to Group::process in that step); so k joint `+`, an alone `+`
\* and a Group end in a Conditional Block exactly when k is odd.
NonOverlapping ==
    /\ [][FlushDue =>
            /\ stack'[Len(stack)].prev = <<None, None>>
            /\ stack'[Len(stack)].stream =
                  Top.stream \o HeldTokens(Top.prev)
                    \o (IF Head(Top.self).kind = "Group" THEN <<>> ELSE <<Head(Top.self)>>)]_vars
    /\ []RunResolved

\* The run `+ + + +[A]` (three joint, one alone, A not empty) has returned with the feature
\* on: two `+` and A.
NonOverlappingReached ==
    /\ Done /\ nightly_enabled
    /\ IsRun(input, 3) /\ input[1].ch = "+" /\ input[5].stream # <<>>
    /\ result = Prefix(input, 2) \o input[5].stream

\* C14. Delimiter independence: a marker followed by a Group is resolved as a Conditional
\* Block, its content spliced or the whole block dropped by the mode alone, whether the Group
\* is bracketed, parenthesised, braced or without visible delimiters.
DelimiterIndependence ==
    (Done /\ IsBlock(input) /\ input[3].delimiter \in Delimiter) =>
        result = (IF (input[1].ch = "+") = nightly_enabled THEN input[3].stream ELSE <<>>)

\* A run on `--(A)`-like input, the Group without visible delimiters and A not empty, has
\* returned A with the feature off.
DelimiterIndependenceReached ==
    /\ Done /\ ~nightly_enabled
    /\ IsBlock(input) /\ input[1].ch = "-" /\ input[3].delimiter = "None"
    /\ input[3].stream # <<>>
    /\ result = input[3].stream

RECURSIVE AtomsOf(_)
\* The atoms of a stream in their order, those inside Groups at the place of the Group.
AtomsOf(s) ==
    IF s = <<>> THEN <<>>
    ELSE (IF Head(s).kind = "Group" THEN AtomsOf(Head(s).stream) ELSE <<Head(s)>>)
            \o AtomsOf(Tail(s))

RECURSIVE IsSubsequence(_, _)
\* a is b with some of its elements left out.
IsSubsequence(a, b) ==
    IF a = <<>> THEN TRUE
    ELSE IF b = <<>> THEN FALSE
    ELSE IF Head(a) = Head(b) THEN IsSubsequence(Tail(a), Tail(b))
    ELSE IsSubsequence(a, Tail(b))

\* C15. Order preservation without duplication: the atoms of the output, Groups flattened,
\* are a subsequence of the atoms of the input, characters and spacing unchanged: nothing is
\* emitted twice, out of order or invented.
OrderPreserved == Done => IsSubsequence(AtomsOf(result), AtomsOf(input))

\* A run has returned some but not all of the atoms of an input in which a held pair was
\* flushed ahead of an ident.
OrderPreservedReached ==
    /\ Done
    /\ Len(input) >= 4
    /\ JointSign(input[1]) /\ AloneTwin(input[1], input[2]) /\ input[3].kind = "Ident"
    /\ Len(result) >= 3
    /\ Len(AtomsOf(result)) < Len(AtomsOf(input))

====
